---------------------------- MODULE Spec2Model ----------------------------
(***************************************************************************)
(* A model of the request pipeline of gateway.py (class AIGateway): the    *)
(* PII vault, the model router, the schema validator, the cost accountant  *)
(* and the bounded audit log, with the templates of templates.py.          *)
(*                                                                         *)
(* Representation.  A Python str is a sequence of atoms.  An atom is a     *)
(* one-character string, or a whole token "PII_<TYPE>_<6 hex>" kept as one *)
(* atom: a token consists of word characters only and holds an underscore, *)
(* so no pattern of the registry matches into it and no matched literal    *)
(* occurs inside it.  Money is counted in units of 1e-10 dollar, times in  *)
(* milliseconds, confidences in hundredths, so that all arithmetic is      *)
(* integer arithmetic.                                                     *)
(***************************************************************************)
EXTENDS Integers, Sequences, FiniteSets, TLC

VARIABLES
    pii_vault,      \* self.pii_vault: token -> original value
    audit_log,      \* self.audit_log: deque(maxlen=1000)
    total_cost,     \* self.total_cost (units of 1e-10 dollar)
    request_count,  \* self.request_count
    api_key,        \* self.api_key
    last,           \* outcome of the last call made on the gateway
    calls,          \* history: number of Process calls started
    returned,       \* history: number of Process calls that returned
    cost_sum,       \* history: sum of the costs of the calls that returned
    appended,       \* history: every entry ever appended to the log, in order
    first_stored,   \* history: token -> the value it was first stored with
    replaced,       \* history: <<token, substring it replaced>> pairs
    threads         \* thread -> where its call of process stands, its locals

vars == <<pii_vault, audit_log, total_cost, request_count, api_key, last,
          calls, returned, cost_sum, appended, first_stored, replaced,
          threads>>

-----------------------------------------------------------------------------
(* Characters and strings *)

Digits == <<"0", "1", "2", "3", "4", "5", "6", "7", "8", "9">>
Lower == <<"a", "b", "c", "d", "e", "f", "g", "h", "i", "j", "k", "l", "m",
           "n", "o", "p", "q", "r", "s", "t", "u", "v", "w", "x", "y", "z">>
Upper == <<"A", "B", "C", "D", "E", "F", "G", "H", "I", "J", "K", "L", "M",
           "N", "O", "P", "Q", "R", "S", "T", "U", "V", "W", "X", "Y", "Z">>

Range(s) == {s[i] : i \in 1..Len(s)}

DigitChars == Range(Digits)
LetterChars == Range(Lower) \cup Range(Upper)
WordChars == DigitChars \cup LetterChars \cup {"_"}

IndexOf(s, c) == CHOOSE i \in 1..Len(s) : s[i] = c

Min(a, b) == IF a < b THEN a ELSE b

Max(a, b) == IF a < b THEN b ELSE a

\* s[lo] + ... + s[hi], by halving (the recursion stays shallow)
RECURSIVE SumRange(_, _, _)
SumRange(s, lo, hi) ==
    IF lo > hi THEN 0
    ELSE IF lo = hi THEN s[lo]
    ELSE LET mid == (lo + hi) \div 2
         IN  SumRange(s, lo, mid) + SumRange(s, mid + 1, hi)

SeqSum(s) == SumRange(s, 1, Len(s))

\* the sum of the values of a function with a finite domain
RECURSIVE SetSum(_, _)
SetSum(f, keys) ==
    IF keys = {} THEN 0
    ELSE LET key == CHOOSE k \in keys : TRUE
         IN  f[key] + SetSum(f, keys \ {key})

FcnSum(f) == SetSum(f, DOMAIN f)

\* str(...) of a Python str given as atoms: the concatenation of its atoms.
RECURSIVE JoinRange(_, _, _)
JoinRange(s, lo, hi) ==
    IF lo > hi THEN ""
    ELSE IF lo = hi THEN s[lo]
    ELSE LET mid == (lo + hi) \div 2
         IN  JoinRange(s, lo, mid) \o JoinRange(s, mid + 1, hi)

Join(s) == JoinRange(s, 1, Len(s))

\* len(s): a token atom counts with all its characters.
StrLen(s) == SeqSum([i \in 1..Len(s) |-> Len(s[i])])

IsChar(a) == Len(a) = 1

\* \w of the re module: letters, digits, underscore (a token is made of them).
IsWord(a) == ~IsChar(a) \/ a \in WordChars

\* \s of the re module.
IsSpace(a) == a \in {" ", "\n", "\t"}

\* len(s.split()): the number of maximal runs of non-whitespace.
WordCount(s) ==
    Cardinality({i \in 1..Len(s) :
                    ~IsSpace(s[i]) /\ (i = Len(s) \/ IsSpace(s[i + 1]))})

\* ord(c) of the characters the model's texts are made of.
Ord(c) ==
    CASE c \in DigitChars -> 47 + IndexOf(Digits, c)
      [] c \in Range(Upper) -> 64 + IndexOf(Upper, c)
      [] c \in Range(Lower) -> 96 + IndexOf(Lower, c)
      [] c = " " -> 32
      [] c = "!" -> 33
      [] c = "-" -> 45
      [] c = "." -> 46
      [] c = "@" -> 64
      [] c = "_" -> 95
      [] OTHER -> 63

-----------------------------------------------------------------------------
(* The pattern registry: self.pii_patterns.  A pattern is \b e1 e2 ... \b, *)
(* each element a character class repeated min..max times (max = 0: no    *)
(* upper limit), greedy, with backtracking.                               *)

\* The character classes of the three patterns.
CharClass ==
    [local |-> DigitChars \cup LetterChars \cup {".", "_", "%", "+", "-"},
     at |-> {"@"},
     domain |-> DigitChars \cup LetterChars \cup {".", "-"},
     dot |-> {"."},
     tld |-> LetterChars \cup {"|"},
     digit |-> DigitChars,
     sep |-> {"-", "."},
     upper |-> Range(Upper)]

InClass(a, cls) == a \in CharClass[cls]

El(cls, lo, hi) == [cls |-> cls, min |-> lo, max |-> hi]

pii_patterns ==
    [email |-> <<El("local", 1, 0), El("at", 1, 1), El("domain", 1, 0),
                 El("dot", 1, 1), El("tld", 2, 0)>>,
     phone |-> <<El("digit", 3, 3), El("sep", 0, 1), El("digit", 3, 3),
                 El("sep", 0, 1), El("digit", 4, 4)>>,
     iban  |-> <<El("upper", 2, 2), El("digit", 20, 20)>>]

\* \b before position i of text (i = Len(text) + 1: the end of the text).
WordBoundary(text, i) ==
    LET before == i > 1 /\ IsWord(text[i - 1])
        after == i <= Len(text) /\ IsWord(text[i])
    IN  before # after

\* How many atoms from position i on are in class cls.
RunLen(text, i, cls) ==
    LET out == {j \in i..Len(text) : ~InClass(text[j], cls)}
    IN  IF out = {} THEN Len(text) + 1 - i
        ELSE (CHOOSE j \in out : \A m \in out : j <= m) - i

\* The position after the match of elements k.. of pat at position i that the
\* backtracking matcher finds first (longest repetitions first), 0 if none.
RECURSIVE MatchEnd(_, _, _, _)
MatchEnd(pat, k, text, i) ==
    IF k > Len(pat) THEN (IF WordBoundary(text, i) THEN i ELSE 0)
    ELSE LET run == RunLen(text, i, pat[k].cls)
             hi == IF pat[k].max = 0 THEN run ELSE Min(run, pat[k].max)
             end == [n \in pat[k].min..hi |-> MatchEnd(pat, k + 1, text, i + n)]
             ok == {n \in DOMAIN end : end[n] # 0}
         IN  IF ok = {} THEN 0
             ELSE end[CHOOSE n \in ok : \A m \in ok : m <= n]

\* pattern.findall(text) from position i on: the non-overlapping matches,
\* leftmost first, as strings.
RECURSIVE FindAllFrom(_, _, _)
FindAllFrom(pat, text, i) ==
    LET starts == {p \in i..Len(text) :
                      WordBoundary(text, p) /\ MatchEnd(pat, 1, text, p) # 0}
    IN  IF starts = {} THEN <<>>
        ELSE LET p == CHOOSE p \in starts : \A q \in starts : p <= q
                 e == MatchEnd(pat, 1, text, p)
             IN  <<SubSeq(text, p, e - 1)>> \o FindAllFrom(pat, text, e)

findall(pat, text) == FindAllFrom(pat, text, 1)

\* text.find(sub): the first position where sub occurs in text, 0 if none.
Find(text, sub) ==
    LET at == {i \in 1..(Len(text) - Len(sub) + 1) :
                    SubSeq(text, i, i + Len(sub) - 1) = sub}
    IN  IF at = {} THEN 0 ELSE CHOOSE i \in at : \A j \in at : i <= j

\* text.replace(old, new, 1), new being one atom.
replace_first(text, old, new) ==
    LET i == Find(text, old)
    IN  IF i = 0 THEN text
        ELSE SubSeq(text, 1, i - 1) \o <<new>> \o SubSeq(text, i + Len(old), Len(text))

-----------------------------------------------------------------------------
(* Tokens.  hashlib.md5 cannot be evaluated here; md5_hexdigest6 stands in *)
(* for hexdigest()[:6]: like the original it is a deterministic function   *)
(* of the characters onto the 16^6 six-digit hex strings, hence not        *)
(* injective (there are 10^10 ten-digit phone numbers).  The stand-in is a *)
(* checksum, so the values that collide in the model are permutations of   *)
(* each other; under MD5 they are other pairs, for example 555-000-0059    *)
(* and 555-000-0282, both 4853ab.                                          *)

HexDigits == Digits \o <<"a", "b", "c", "d", "e", "f">>

RECURSIVE Hex(_, _)
Hex(n, width) ==
    IF width = 0 THEN "" ELSE Hex(n \div 16, width - 1) \o HexDigits[(n % 16) + 1]

OrdSum(s) == SeqSum([i \in 1..Len(s) |-> Ord(s[i])])

\* hashlib.md5(match.encode()).hexdigest()[:6], by the stand-in
md5_hexdigest6(value) == Hex(OrdSum(value) % 16777216, 6)

\* pii_type.upper() for the types of the registry.
str_upper(pii_type) ==
    CASE pii_type = "email" -> "EMAIL"
      [] pii_type = "phone" -> "PHONE"
      [] pii_type = "iban" -> "IBAN"
      [] OTHER -> pii_type

make_token(pii_type, match) ==
    "PII_" \o str_upper(pii_type) \o "_" \o md5_hexdigest6(match)

\* self.pii_vault[token] = match
vault_store(vault, token, match) ==
    [t \in DOMAIN vault \cup {token} |-> IF t = token THEN match ELSE vault[t]]

\* One pass of the inner loop: st is the loop state (the working text, the
\* vault, the count); st.trace records what the loop did, for the history.
tokenize_match(st, pii_type, match) ==
    LET token == make_token(pii_type, match)
    IN  [text |-> replace_first(st.text, match, token),
         vault |-> vault_store(st.vault, token, match),
         count |-> st.count + 1,
         trace |-> Append(st.trace, [token |-> token, value |-> match])]

RECURSIVE tokenize_matches(_, _, _)
tokenize_matches(st, pii_type, matches) ==
    IF matches = <<>> THEN st
    ELSE tokenize_matches(tokenize_match(st, pii_type, matches[1]),
                          pii_type, Tail(matches))

RECURSIVE tokenize_types(_, _)
tokenize_types(st, pii_types) ==
    IF pii_types = <<>> THEN st
    ELSE IF pii_types[1] \notin DOMAIN pii_patterns
         THEN tokenize_types(st, Tail(pii_types))
         ELSE tokenize_types(
                  tokenize_matches(st, pii_types[1],
                                   findall(pii_patterns[pii_types[1]], st.text)),
                  Tail(pii_types))

_anonymize_pii(text, pii_types, vault) ==
    tokenize_types([text |-> text, vault |-> vault, count |-> 0, trace |-> <<>>],
                   pii_types)

-----------------------------------------------------------------------------
(* Input texts: up to MaxWords words of a vocabulary, joined by blanks.    *)

MaxWords == 2

W_plain == <<"h", "i">>
W_phone == <<"5", "5", "5", "-", "1", "2", "3", "-", "4", "5", "6", "7">>
\* another phone number, with the digest of W_phone
W_phone2 == <<"5", "5", "5", "-", "1", "2", "3", "-", "4", "5", "7", "6">>
\* the digits of W_phone after a letter: no \b before them
W_glued == <<"a">> \o W_phone
W_email == <<"j", "@", "e", ".", "c", "o">>
W_iban == <<"D", "E", "8", "9", "3", "7", "0", "4", "0", "0", "4", "4", "0", "5",
            "3", "2", "0", "1", "3", "0", "0", "0">>

Vocabulary == {W_plain, W_phone, W_phone2, W_glued, W_email, W_iban}

RECURSIVE JoinWords(_)
JoinWords(ws) ==
    IF ws = <<>> THEN <<>>
    ELSE IF Len(ws) = 1 THEN ws[1]
         ELSE ws[1] \o <<" ">> \o JoinWords(Tail(ws))

Texts == {JoinWords(ws) : ws \in UNION {[1..n -> Vocabulary] : n \in 0..MaxWords}}

\* The pii_masking lists of the templates, and lists a caller may pass.
TypeLists == {<<"email", "phone">>, <<"email", "iban", "phone">>,
              <<"phone">>, <<"ssn", "phone", "email">>, <<>>}

-----------------------------------------------------------------------------
(* Python values.  A value is [t |-> type, v |-> payload]: a dict is a     *)
(* function from keys to values (the order of its keys is not kept), a str *)
(* a sequence of atoms, a number an integer.                               *)

JStr(s) == [t |-> "str", v |-> s]
JNum(n) == [t |-> "num", v |-> n]
JBool(b) == [t |-> "bool", v |-> b]
JList(s) == [t |-> "list", v |-> s]
JDict(f) == [t |-> "dict", v |-> f]
JNull == [t |-> "null", v |-> 0]

EmptyDict == [k \in {} |-> JNull]

\* Python's None, and the test "x is None" for an x that is a value or a
\* configuration (a record of the keys it holds)
None == JNull

IsNone(x) == "t" \in DOMAIN x /\ x.t = "null"

\* d.get(key, default) of a dict given as a function
Get(d, key, default) == IF key \in DOMAIN d THEN d[key] ELSE default

S_category == <<"c", "a", "t", "e", "g", "o", "r", "y">>
S_confidence == <<"c", "o", "n", "f", "i", "d", "e", "n", "c", "e">>
S_reasoning == <<"r", "e", "a", "s", "o", "n", "i", "n", "g">>
S_name == <<"n", "a", "m", "e">>
S_email == <<"e", "m", "a", "i", "l">>
S_iban == <<"i", "b", "a", "n">>
S_risk_score == <<"r", "i", "s", "k", "_", "s", "c", "o", "r", "e">>
S_answer == <<"a", "n", "s", "w", "e", "r">>
S_source == <<"s", "o", "u", "r", "c", "e">>
S_account_support == <<"a", "c", "c", "o", "u", "n", "t", "_", "s", "u", "p",
    "p", "o", "r", "t">>
S_reasoning_text == <<"U", "s", "e", "r", " ", "m", "e", "n", "t", "i", "o",
    "n", "s", " ", "p", "a", "s", "s", "w", "o", "r", "d", " ", "i", "s", "s",
    "u", "e", "s", " ", "w", "h", "i", "c", "h", " ", "t", "y", "p", "i", "c",
    "a", "l", "l", "y", " ", "f", "a", "l", "l", " ", "u", "n", "d", "e", "r",
    " ", "a", "c", "c", "o", "u", "n", "t", " ", "s", "u", "p", "p", "o", "r",
    "t">>
S_john_smith == <<"J", "o", "h", "n", " ", "S", "m", "i", "t", "h">>
S_default_email == <<"j", "o", "h", "n", ".", "s", "m", "i", "t", "h", "@",
    "e", "m", "a", "i", "l", ".", "c", "o", "m">>
S_default_iban == <<"D", "E", "8", "9", "3", "7", "0", "4", "0", "0", "4",
    "4", "0", "5", "3", "2", "0", "1", "3", "0", "0", "0">>
S_low == <<"l", "o", "w">>
S_german == <<"G", "e", "r", "m", "a", "n">>
S_answer_text == <<"S", "C", " ", "o", "f", "f", "e", "r", "s", " ", "1", "2",
    " ", "w", "e", "e", "k", "s", " ", "o", "f", " ", "p", "a", "i", "d", " ",
    "p", "a", "r", "e", "n", "t", "a", "l", " ", "l", "e", "a", "v", "e", " ",
    "f", "o", "r", " ", "p", "r", "i", "m", "a", "r", "y", " ", "c", "a", "r",
    "e", "g", "i", "v", "e", "r", "s", " ", "a", "n", "d", " ", "4", " ", "w",
    "e", "e", "k", "s", " ", "f", "o", "r", " ", "s", "e", "c", "o", "n", "d",
    "a", "r", "y", " ", "c", "a", "r", "e", "g", "i", "v", "e", "r", "s", ",",
    " ", "i", "n", " ", "a", "c", "c", "o", "r", "d", "a", "n", "c", "e", " ",
    "w", "i", "t", "h", " ", "G", "e", "r", "m", "a", "n", " ", "l", "a", "w",
    ".">>
S_source_text == <<"e", "m", "p", "l", "o", "y", "e", "e", "_", "h", "a", "n",
    "d", "b", "o", "o", "k", "_", "s", "e", "c", "t", "i", "o", "n", "_", "4",
    ".", "2">>
S_unknown_template == <<"U", "n", "k", "n", "o", "w", "n", " ", "t", "e", "m",
    "p", "l", "a", "t", "e">>
S_invalid_json == <<"I", "n", "v", "a", "l", "i", "d", " ", "J", "S", "O",
    "N", " ", "r", "e", "s", "p", "o", "n", "s", "e">>
S_billing == <<"b", "i", "l", "l", "i", "n", "g">>

\* len(str(value).split()): the words of the repr of a value.  The quotes,
\* brackets and commas of the repr stick to the words next to them.
RECURSIVE ReprWords(_)
ReprWords(x) ==
    CASE x.t = "str" -> WordCount(<<"'">> \o x.v \o <<"'">>)
      [] x.t = "list" ->
            IF x.v = <<>> THEN 1
            ELSE SeqSum([i \in 1..Len(x.v) |-> ReprWords(x.v[i])])
      [] x.t = "dict" ->
            IF DOMAIN x.v = {} THEN 1
            ELSE FcnSum([k \in DOMAIN x.v |-> 1 + ReprWords(x.v[k])])
      [] OTHER -> 1

-----------------------------------------------------------------------------
(* templates.py: TEMPLATES, with the keys the gateway reads.               *)

TEMPLATES ==
    [support_ticket_classifier |->
        [template |-> "classification",
         name |-> "support_ticket_classifier",
         model |-> "gpt-4o-mini",
         system_prompt |-> "You are a support ticket classifier.",
         output_schema |-> [required |-> <<S_category, S_confidence, S_reasoning>>],
         pii_masking |-> <<"email", "phone">>],
     onboarding_document_extractor |->
        [template |-> "extraction",
         name |-> "onboarding_document_extractor",
         model |-> "gpt-4o-mini",
         system_prompt |-> "Extract structured information.",
         output_schema |-> [required |-> <<S_name, S_email, S_iban, S_risk_score>>],
         pii_masking |-> <<"email", "iban", "phone">>,
         fallback_model |-> "o1-mini"],
     employee_faq_bot |->
        [template |-> "qa",
         name |-> "employee_faq_bot",
         model |-> "gpt-4o-mini",
         system_prompt |-> "Answer employee questions.",
         output_schema |-> [required |-> <<S_answer, S_source, S_confidence>>],
         pii_masking |-> <<"email", "phone">>]]

\* get_template(template_name): TEMPLATES.get(template_name)
get_template(template_name) == Get(TEMPLATES, template_name, None)

-----------------------------------------------------------------------------
(* The stages of the pipeline, as functions of their arguments and of the  *)
(* gateway fields they read.                                               *)

has_no_complex_patterns(input_text) == FALSE

\* re.search(r'[^\w\s]', input_text)
has_complex_patterns(input_text) ==
    \E i \in 1..Len(input_text) : ~IsWord(input_text[i]) /\ ~IsSpace(input_text[i])

_route_model(input_text, config) ==
    LET base_model == Get(config, "model", "gpt-4o-mini")
        word_count == WordCount(input_text)
        complexity_threshold == Get(config, "complexity_threshold", 100)
        fallback == Get(config, "fallback_model", "")
    IN  IF (word_count > complexity_threshold \/ has_complex_patterns(input_text))
           /\ fallback # ""
        THEN fallback
        ELSE base_model

\* A response text, carried with the value json.loads gives for it (Invalid:
\* json.loads raises JSONDecodeError).
Invalid == [t |-> "invalid", v |-> 0]

Response(text, json) == [t |-> "str", v |-> text, json |-> json]

\* 'EMAIL' in t, for a token t of the vault: the token was made from the value
\* the vault holds for it.
token_is(vault, t, pii_type) == t = make_token(pii_type, vault[t])

\* next((t for t in tokens_in_input if ...), None) or default.  With several
\* tokens of one type in the input the code takes the one stored first; the
\* texts of the model hold at most one e-mail address and one IBAN.
token_or(vault, input_text, pii_type, default) ==
    LET found == {t \in DOMAIN vault :
                    t \in Range(input_text) /\ token_is(vault, t, pii_type)}
    IN  IF found = {} THEN default ELSE <<CHOOSE t \in found : TRUE>>

\* The mock responses (their text is not spelled out: it always parses).
mock_responses(template, vault, input_text) ==
    CASE template = "classification" ->
            Response(<<"{", "}">>,
                JDict([category |-> JStr(S_account_support),
                       confidence |-> JNum(92),
                       reasoning |-> JStr(S_reasoning_text)]))
      [] template = "extraction" ->
            Response(<<"{", "}">>,
                JDict([name |-> JStr(S_john_smith),
                       email |-> JStr(token_or(vault, input_text, "email",
                                               S_default_email)),
                       iban |-> JStr(token_or(vault, input_text, "iban",
                                              S_default_iban)),
                       risk_score |-> JStr(S_low),
                       nationality |-> JStr(S_german)]))
      [] template = "qa" ->
            Response(<<"{", "}">>,
                JDict([answer |-> JStr(S_answer_text),
                       source |-> JStr(S_source_text),
                       confidence |-> JNum(87),
                       requires_human_review |-> JBool(FALSE)]))
      [] OTHER ->
            Response(<<"{", "}">>, JDict([error |-> JStr(S_unknown_template)]))

\* if self.api_key:
truthy(key) == ~IsNone(key) /\ key.v # <<>>

\* invoke is what the external call does on this request: it raises
\* (ok = FALSE) or returns message.content.  Without config['system_prompt']
\* the try block raises KeyError before the call.  Every Exception of the
\* try block leads to the mock responses.
_call_llm(model, input_text, config, vault, key, invoke) ==
    IF truthy(key) /\ "system_prompt" \in DOMAIN config /\ invoke.ok
    THEN invoke.content
    ELSE mock_responses(Get(config, "template", ""), vault, input_text)

\* field in parsed, for a parsed value on which "in" is defined
contains_always(parsed, field) == TRUE

contains(parsed, field) ==
    CASE parsed.t = "dict" -> Join(field) \in DOMAIN parsed.v
      [] parsed.t = "list" -> \E i \in 1..Len(parsed.v) : parsed.v[i] = JStr(field)
      [] parsed.t = "str" -> Find(parsed.v, field) # 0
      [] OTHER -> FALSE

Raise(exc) == [exc |-> exc, value |-> None]

Return(value) == [exc |-> "", value |-> value]

\* json.loads(None) raises TypeError, "field in parsed" raises TypeError on a
\* number, a bool and None; only JSONDecodeError is caught.
_validate_schema(response, config) ==
    IF IsNone(response) THEN Raise("TypeError")
    ELSE IF response.json = Invalid
    THEN Return(JDict([data |-> JDict([error |-> JStr(S_invalid_json),
                                       raw_response |-> JStr(response.v)]),
                       validation_passed |-> JBool(FALSE),
                       missing_fields |-> JList(<<>>)]))
    ELSE LET parsed == response.json
             schema == Get(config, "output_schema", [required |-> <<>>])
             required == Get(schema, "required", <<>>)
             missing_fields ==
                SelectSeq(required, LAMBDA field : ~contains(parsed, field))
         IN  IF required # <<>> /\ parsed.t \in {"num", "bool", "null"}
             THEN Raise("TypeError")
             ELSE Return(JDict(
                    [data |-> parsed,
                     validation_passed |-> JBool(Len(missing_fields) = 0),
                     missing_fields |->
                        JList([i \in 1..Len(missing_fields) |->
                                  JStr(missing_fields[i])])]))

\* value.startswith('PII_')
startswith_PII(s) ==
    /\ s # <<>>
    /\ \/ ~IsChar(s[1])
       \/ Len(s) >= 4 /\ SubSeq(s, 1, 4) = <<"P", "I", "I", "_">>

\* self.pii_vault.get(value, value)
vault_get(vault, s) == IF Join(s) \in DOMAIN vault THEN vault[Join(s)] ELSE s

RECURSIVE _detokenize(_, _)
_detokenize(data, vault) ==
    IF data.t = "dict"
    THEN JDict([key \in DOMAIN data.v |->
            LET value == data.v[key]
            IN  IF key = "data" /\ value.t = "dict" THEN _detokenize(value, vault)
                ELSE IF value.t = "str" /\ startswith_PII(value.v)
                     THEN JStr(vault_get(vault, value.v))
                     ELSE value])
    ELSE data

\* s[:n] of a str whose first atom may be a token ("PII_...")
Prefix(s, n) ==
    IF s # <<>> /\ ~IsChar(s[1]) THEN SubSeq(<<"P", "I", "I", "_">>, 1, Min(n, 4))
    ELSE SubSeq(s, 1, Min(n, Len(s)))

\* original.replace('-', '').replace('.', '').isdigit()
is_digits(original) ==
    LET rest == SelectSeq(original, LAMBDA a : a \notin {"-", "."})
    IN  rest # <<>> /\ \A i \in 1..Len(rest) : rest[i] \in DigitChars

\* The rendering of lines 288-296.  An original holding '@' never starts
\* with it here (it is a matched address or starts with PII_), so
\* parts[0][0] exists.
mask_original(original) ==
    IF "@" \in Range(original)
    THEN LET i == Find(original, <<"@">>)
             rest == SubSeq(original, i + 1, Len(original))
             j == Find(rest, <<"@">>)
             part1 == IF j = 0 THEN rest ELSE SubSeq(rest, 1, j - 1)
         IN  Prefix(original, 1) \o <<"*", "*", "*", "@">> \o part1
    ELSE IF is_digits(original)
    THEN <<"*", "*", "*", "-", "*", "*", "*", "-">>
         \o SubSeq(original, Max(1, Len(original) - 3), Len(original))
    ELSE Prefix(original, 2) \o <<"*", "*", "*">>

RECURSIVE _mask_for_display(_, _)
_mask_for_display(data, vault) ==
    IF data.t = "dict"
    THEN JDict([key \in DOMAIN data.v |->
            LET value == data.v[key]
            IN  IF key = "data" /\ value.t = "dict"
                THEN _mask_for_display(value, vault)
                ELSE IF value.t = "str" /\ startswith_PII(value.v)
                     THEN JStr(mask_original(vault_get(vault, value.v)))
                     ELSE value])
    ELSE data

\* self.MODEL_COSTS, per word in units of 1e-10 dollar: the dollar rates per
\* 1000 words (0.00015, 0.0006; 0.0025, 0.01), divided by 1000.
MODEL_COSTS ==
    [m \in {"gpt-4o-mini", "gpt-4o", "o1-mini"} |->
        IF m = "gpt-4o" THEN [input |-> 25000, output |-> 100000]
        ELSE [input |-> 1500, output |-> 6000]]

\* round(n / d, places), the result a multiple of q = 10^-places in the
\* unit of n; ties go to the even multiple.  (The code rounds binary
\* floats, where a decimal tie is decided by the representation error.)
RoundDiv(n, d, q) ==
    LET den == d * q
        fl == n \div den
        r == n % den
    IN  q * (IF 2 * r < den THEN fl
             ELSE IF 2 * r > den THEN fl + 1
             ELSE IF fl % 2 = 0 THEN fl ELSE fl + 1)

\* the cost _calculate_cost computes and adds to self.total_cost
computed_cost(model, input_tokens, output_tokens) ==
    LET model_costs == Get(MODEL_COSTS, model, MODEL_COSTS["gpt-4o-mini"])
    IN  input_tokens * model_costs.input + output_tokens * model_costs.output

\* the value _calculate_cost returns: round(cost, 6)
rounded_cost(cost) == RoundDiv(cost, 1, 10000)

\* deque(maxlen=1000)
maxlen == 1000

deque_append_unbounded(dq, entry) == Append(dq, entry)

\* self.audit_log.append(entry)
deque_append(dq, entry) ==
    LET s == Append(dq, entry)
    IN  IF Len(s) > maxlen THEN Tail(s) ELSE s

\* The entry _log_audit builds; output is a dict with the key 'data', and
\* output['data'].keys() raises AttributeError unless the data is a dict.
\* The keys are kept as a set.  A confidence in the data is a number in the
\* responses of the model.
audit_entry(now, use_case, original_input, clean_input, output, cost, elapsed, model_used, pii_masked_count) ==
    IF output.v.data.t # "dict" THEN Raise("AttributeError")
    ELSE Return(
        [timestamp |-> now,
         use_case |-> use_case,
         original_input_length |-> StrLen(original_input),
         cleaned_input_length |-> StrLen(clean_input),
         pii_masked_count |-> pii_masked_count,
         model_used |-> model_used,
         output_keys |-> DOMAIN output.v.data.v,
         cost |-> cost,
         processing_time |-> elapsed,
         confidence |-> Get(output.v.data.v, "confidence", JNum(0)).v,
         validation_passed |-> output.v.validation_passed.v])

add_cost_twice(total, cost) == total + cost + cost

\* self.total_cost += cost
add_cost(total, cost) == total + cost

\* self.request_count += 1
count_request(n) == n + 1

\* AIGateway.process on the gateway self (a record of its fields), written
\* as the stages of its pipeline, last stage first.  now is the clock at the
\* call, elapsed the time.time() difference it measures (read once).  The
\* value is the gateway after the call, with the exception that escaped
\* (exc = "": none) or the result returned, and for the history: what the
\* tokenizer stored (trace), the entry appended and the cost computed (-1:
\* the call did not get there).

no_vault_keys(vault) == {}

\* list(self.pii_vault.keys()), as the set of the keys
vault_keys(vault) == DOMAIN vault

\* step 7, after the entry is built, and the return
process_logged(self, input_text, elapsed, tk, model, validated, computed, entry) ==
    IF entry.exc # ""
    THEN [self |-> self, exc |-> entry.exc, value |-> None,
          trace |-> tk.trace, entry |-> None, computed |-> computed]
    ELSE [self |-> [self EXCEPT !.audit_log = deque_append(@, entry.value),
                                !.request_count = count_request(@)],
          exc |-> "",
          value |-> [original_input |-> input_text,
                     tokenized_input |-> tk.text,
                     model_used |-> model,
                     output |-> _mask_for_display(validated, self.pii_vault),
                     backend_output |-> _detokenize(validated, self.pii_vault),
                     cost |-> rounded_cost(computed),
                     processing_time |-> elapsed,
                     pii_tokenized_count |-> tk.count,
                     pii_tokens |-> vault_keys(self.pii_vault)],
          trace |-> tk.trace, entry |-> entry.value, computed |-> computed]

\* step 6, after the cost is computed: _calculate_cost adds it to total_cost
\* and returns it rounded; then _log_audit builds the entry
process_costed(self, use_case, input_text, now, elapsed, tk, model, validated, computed) ==
    process_logged([self EXCEPT !.total_cost = add_cost(@, computed)],
                   input_text, elapsed, tk, model, validated, computed,
                   audit_entry(now, use_case, input_text, tk.text, validated,
                               rounded_cost(computed), elapsed, model, tk.count))

\* steps 4 to 6, after the response is there
process_validated(self, use_case, input_text, now, elapsed, tk, model, validated) ==
    IF validated.exc # ""
    THEN [self |-> self, exc |-> validated.exc, value |-> None,
          trace |-> tk.trace, entry |-> None, computed |-> -1]
    ELSE process_costed(self, use_case, input_text, now, elapsed, tk, model,
                        validated.value,
                        computed_cost(model, WordCount(tk.text),
                                      ReprWords(validated.value)))

\* steps 2 to 4, after the tokenizer has updated the vault
process_tokenized(self, use_case, input_text, config, invoke, now, elapsed, tk, model) ==
    process_validated(self, use_case, input_text, now, elapsed, tk, model,
                      _validate_schema(
                          _call_llm(model, tk.text, config, self.pii_vault,
                                    self.api_key, invoke),
                          config))

process(self, use_case, input_text, config, invoke, now, elapsed) ==
    IF IsNone(config)
    THEN \* line 43: config.get on None
         [self |-> self, exc |-> "AttributeError", value |-> None,
          trace |-> <<>>, entry |-> None, computed |-> -1]
    ELSE LET tk == _anonymize_pii(input_text,
                                  Get(config, "pii_masking", <<>>),
                                  self.pii_vault)
         IN  process_tokenized([self EXCEPT !.pii_vault = tk.vault],
                               use_case, input_text, config, invoke, now,
                               elapsed, tk, _route_model(input_text, config))

\* list(self.audit_log)[start:] of Python
slice_from(s, start) ==
    LET from == IF start < 0 THEN Max(Len(s) + start, 0) ELSE Min(start, Len(s))
    IN  SubSeq(s, from + 1, Len(s))

\* get_audit_log(limit), on the log
get_audit_log(log, limit) ==
    IF log = <<>> THEN <<>> ELSE slice_from(log, -limit)

\* get_stats(), on the gateway fields it reads.  Confidences are in
\* hundredths (round(.., 2): whole hundredths), times in milliseconds
\* (round(.., 2): multiples of 10 ms), costs in 1e-10 dollar (round(.., 6):
\* multiples of 10000).
get_stats(log, total, count) ==
    IF log = <<>>
    THEN [requests |-> 0, total_cost |-> 0, avg_confidence |-> 0]
    ELSE [requests |-> count,
          total_cost |-> RoundDiv(total, 1, 10000),
          avg_cost_per_request |->
              IF count > 0 THEN RoundDiv(total, count, 10000) ELSE 0,
          avg_confidence |->
              RoundDiv(SeqSum([i \in 1..Len(log) |-> log[i].confidence]),
                       Len(log), 1),
          avg_processing_time |->
              RoundDiv(SeqSum([i \in 1..Len(log) |-> log[i].processing_time]),
                       Len(log), 10)]

-----------------------------------------------------------------------------
(* The gateway as a state machine.                                         *)

Self == [pii_vault |-> pii_vault, audit_log |-> audit_log,
         total_cost |-> total_cost, request_count |-> request_count,
         api_key |-> api_key]

\* The threads that call process on the one gateway.
NumThreads == 2

Threads == 1..NumThreads

\* History: the value each token was first stored with.
RECURSIVE FirstStored(_, _)
FirstStored(first, trace) ==
    IF trace = <<>> THEN first
    ELSE FirstStored(
            IF trace[1].token \in DOMAIN first THEN first
            ELSE [t \in DOMAIN first \cup {trace[1].token} |->
                     IF t = trace[1].token THEN trace[1].value ELSE first[t]],
            Tail(trace))

Replaced(trace) == {<<trace[i].token, trace[i].value>> : i \in 1..Len(trace)}

\* AIGateway.__init__
Init ==
    /\ pii_vault = [t \in {} |-> <<>>]
    /\ audit_log = <<>>
    /\ total_cost = 0
    /\ request_count = 0
    /\ api_key = None
    /\ last = [op |-> "__init__", exc |-> "", value |-> None]
    /\ calls = 0
    /\ returned = 0
    /\ cost_sum = 0
    /\ appended = <<>>
    /\ first_stored = [t \in {} |-> <<>>]
    /\ replaced = {}
    /\ threads = [t \in Threads |-> [pc |-> "idle"]]

\* set_api_key(api_key)
SetApiKey(key) ==
    /\ api_key' = key
    /\ last' = [op |-> "set_api_key", exc |-> "", value |-> None]
    /\ UNCHANGED <<pii_vault, audit_log, total_cost, request_count, calls,
                   returned, cost_sum, appended, first_stored, replaced,
                   threads>>

\* A direct call gateway._anonymize_pii(text, pii_types), as test_pii_masking
\* makes it.
Tokenize(text, pii_types) ==
    \E tk \in {_anonymize_pii(text, pii_types, pii_vault)} :
        /\ pii_vault' = tk.vault
        /\ last' = [op |-> "_anonymize_pii", exc |-> "",
                    value |-> [text |-> text, pii_types |-> pii_types,
                               tokenized_text |-> tk.text,
                               token_count |-> tk.count]]
        /\ calls' = calls + 1
        /\ first_stored' = FirstStored(first_stored, tk.trace)
        /\ replaced' = replaced \cup Replaced(tk.trace)
        /\ UNCHANGED <<audit_log, total_cost, request_count, api_key,
                       returned, cost_sum, appended, threads>>

\* The external call is only made with a key and a system prompt.
Invoked(key, config) ==
    truthy(key) /\ ~IsNone(config) /\ "system_prompt" \in DOMAIN config

\* gateway.process(use_case, input_text, config); invoke and elapsed are what
\* the external model call and the clock do during the call.
Process(use_case, input_text, config, invoke, elapsed) ==
    \E out \in {process(Self, use_case, input_text, config, invoke,
                        calls + 1, elapsed)} :
        /\ pii_vault' = out.self.pii_vault
        /\ audit_log' = out.self.audit_log
        /\ total_cost' = out.self.total_cost
        /\ request_count' = out.self.request_count
        /\ api_key' = out.self.api_key
        /\ last' = [op |-> "process", exc |-> out.exc, value |-> out.value,
                    args |-> [use_case |-> use_case, input_text |-> input_text,
                              config |-> config, invoke |-> invoke,
                              invoked |-> Invoked(api_key, config)]]
        /\ calls' = calls + 1
        /\ returned' = IF out.exc = "" THEN returned + 1 ELSE returned
        /\ cost_sum' = IF out.exc = "" THEN cost_sum + out.computed ELSE cost_sum
        /\ appended' = IF out.exc = "" THEN Append(appended, out.entry)
                       ELSE appended
        /\ first_stored' = FirstStored(first_stored, out.trace)
        /\ replaced' = replaced \cup Replaced(out.trace)
        /\ UNCHANGED threads

-----------------------------------------------------------------------------
(* What the callers and the environment supply.                            *)

ApiKeys == {JStr(<<"s", "k", "-", "d", "e", "m", "o">>)}

\* Use case and configuration as app.py passes them (the configuration is
\* get_template(use_case), None for an unknown use case) and as
\* test_error_handling does (an unknown use case with an empty dict).
EmptyConfig == [k \in {} |-> None]

Callers ==
    {<<name, get_template(name)>> : name \in DOMAIN TEMPLATES \cup {"invalid_template"}}
    \cup {<<"invalid_template", EmptyConfig>>}

\* What the external model may return as message.content.
R_valid ==
    Response(<<"{", "o", "k", "}">>,
             JDict([category |-> JStr(S_billing), confidence |-> JNum(55),
                    reasoning |-> JStr(S_low)]))
R_missing == Response(<<"{", "c", "}">>, JDict([category |-> JStr(S_billing)]))
R_text == Response(<<"o", "o", "p", "s">>, Invalid)
R_list == Response(<<"[", "1", "]">>, JList(<<JNum(1)>>))
R_number == Response(<<"5">>, JNum(5))
R_string == Response(<<"\"", "h", "i", "\"">>, JStr(<<"h", "i">>))
R_null == Response(<<"n", "u", "l", "l">>, JNull)

ModelReplies == {R_valid, R_missing, R_text, R_list, R_number, R_string, R_null, None}

NoReply == [ok |-> FALSE, content |-> None]

InvokeOutcomes == {NoReply} \cup {[ok |-> TRUE, content |-> r] : r \in ModelReplies}

\* time.time() - start_time, in milliseconds
Elapsed == {3, 25}

ThreadElapsed == 3

\* Inputs in the shape of SAMPLE_INPUTS and of the tests' inputs.
SampleInputs ==
    {W_plain,
     JoinWords(<<W_email, W_phone>>),
     W_phone2}

MaxCalls == 2

\* What the external call can do during a call of process: nothing but
\* NoReply where it is not made.
Invocations(config) ==
    IF Invoked(api_key, config) THEN InvokeOutcomes ELSE {NoReply}

Next ==
    \/ \E key \in ApiKeys : SetApiKey(key)
    \/ \E caller \in Callers, input_text \in SampleInputs, elapsed \in Elapsed :
         \E invoke \in Invocations(caller[2]) :
            /\ calls < MaxCalls
            /\ Process(caller[1], input_text, caller[2], invoke, elapsed)

Spec == Init /\ [][Next]_vars

\* Direct calls of the tokenizer on every text of the vocabulary.
MaxTokenizeCalls == 2

NextVault ==
    \E text \in Texts, pii_types \in TypeLists :
        /\ calls < MaxTokenizeCalls
        /\ Tokenize(text, pii_types)

SpecVault == Init /\ [][NextVault]_vars

\* A long run of process, past the capacity of the audit log: the first
\* VariedCalls requests and the requests made once maxlen were made are any
\* of the workload, the requests between are the first of the workload.
Workload ==
    <<[use_case |-> "support_ticket_classifier", input_text |-> W_plain,
       elapsed |-> 3],
      [use_case |-> "onboarding_document_extractor",
       input_text |-> JoinWords(<<W_email, W_iban>>), elapsed |-> 25],
      [use_case |-> "employee_faq_bot", input_text |-> W_phone,
       elapsed |-> 8]>>

VariedCalls == 2

MaxLogCalls == 1002

LogRequests ==
    IF calls < VariedCalls \/ calls >= maxlen THEN Range(Workload)
    ELSE {Workload[1]}

NextLog ==
    \E req \in LogRequests :
        /\ calls < MaxLogCalls
        /\ Process(req.use_case, req.input_text, get_template(req.use_case),
                   NoReply, req.elapsed)

SpecLog == Init /\ [][NextLog]_vars

-----------------------------------------------------------------------------
(* Direct calls of the stages, on a gateway whose vault the tokenizer has  *)
(* filled.                                                                 *)

\* gateway._detokenize(data)
Detokenize(data) ==
    /\ last' = [op |-> "_detokenize", exc |-> "",
                value |-> _detokenize(data, pii_vault), args |-> [data |-> data]]
    /\ UNCHANGED <<pii_vault, audit_log, total_cost, request_count, api_key,
                   calls, returned, cost_sum, appended, first_stored, replaced,
                   threads>>

\* gateway._mask_for_display(data)
MaskForDisplay(data) ==
    /\ last' = [op |-> "_mask_for_display", exc |-> "",
                value |-> _mask_for_display(data, pii_vault),
                args |-> [data |-> data]]
    /\ UNCHANGED <<pii_vault, audit_log, total_cost, request_count, api_key,
                   calls, returned, cost_sum, appended, first_stored, replaced,
                   threads>>

\* gateway._validate_schema(response, config)
Validate(response, config) ==
    \E out \in {_validate_schema(response, config)} :
        /\ last' = [op |-> "_validate_schema", exc |-> out.exc,
                    value |-> out.value,
                    args |-> [response |-> response, config |-> config]]
        /\ UNCHANGED <<pii_vault, audit_log, total_cost, request_count,
                       api_key, calls, returned, cost_sum, appended,
                       first_stored, replaced,
                       threads>>

\* gateway._route_model(input_text, config)
Route(input_text, config) ==
    /\ last' = [op |-> "_route_model", exc |-> "",
                value |-> _route_model(input_text, config),
                args |-> [input_text |-> input_text, config |-> config]]
    /\ UNCHANGED <<pii_vault, audit_log, total_cost, request_count, api_key,
                   calls, returned, cost_sum, appended, first_stored, replaced,
                   threads>>

\* String values: the tokens of the e-mail address and of the phone number
\* of the vocabulary, a token no text produces, the bare prefix, a plain
\* word.
T_email == <<make_token("email", W_email)>>
T_phone == <<make_token("phone", W_phone)>>
T_unknown == <<"PII_EMAIL_ffffff">>
T_prefix == <<"P", "I", "I", "_">>

Leaves ==
    {JStr(T_email), JStr(T_phone), JStr(T_unknown), JStr(T_prefix),
     JStr(W_plain), JNum(5), JNull}

MaxDepth == 2

\* Mappings that hold one value, at nesting depth 0..depth, nested under
\* the key 'data' or under the key 'customer'.
RECURSIVE Mappings(_)
Mappings(depth) ==
    IF depth = 0 THEN {JDict([value |-> leaf]) : leaf \in Leaves}
    ELSE Mappings(depth - 1)
         \cup {JDict([data |-> m]) : m \in Mappings(depth - 1)}
         \cup {JDict([customer |-> m]) : m \in Mappings(depth - 1)}

StageData == Mappings(MaxDepth) \cup {JStr(T_email), JList(<<JStr(T_email)>>)}

StageTexts == SampleInputs

\* Raw responses: those of the external model, the empty object and an
\* object with a field the schema does not name.
R_empty == Response(<<"{", "}">>, JDict(EmptyDict))
R_extra ==
    Response(<<"{", "x", "}">>,
             JDict([category |-> JStr(S_billing), confidence |-> JNum(55),
                    reasoning |-> JStr(S_low), extra |-> JNum(2)]))

StageResponses == (ModelReplies \ {None}) \cup {R_empty, R_extra}

\* Configurations: the templates, the empty one, one whose schema requires
\* nothing.
StageConfigs ==
    {TEMPLATES[name] : name \in DOMAIN TEMPLATES}
    \cup {EmptyConfig, [output_schema |-> [required |-> <<>>]]}

\* Routing configurations: the templates, the empty one, and small
\* thresholds with and without a fallback model.
RouteConfigs ==
    {TEMPLATES[name] : name \in DOMAIN TEMPLATES}
    \cup {EmptyConfig,
          [model |-> "gpt-4o", complexity_threshold |-> 1,
           fallback_model |-> "o1-mini"],
          [model |-> "gpt-4o", complexity_threshold |-> 1],
          [model |-> "gpt-4o", complexity_threshold |-> 2,
           fallback_model |-> "o1-mini"],
          [model |-> "gpt-4o", complexity_threshold |-> 1,
           fallback_model |-> ""]}

W_underscore == <<"a", "_", "b">>

RouteTexts ==
    {<<>>, W_plain, W_underscore, W_email, JoinWords(<<W_plain, W_plain>>),
     JoinWords(<<W_plain, W_plain, W_plain>>),
     JoinWords(<<W_plain, W_underscore>>), JoinWords(<<W_plain, W_phone>>)}

NextStages ==
    \/ \E text \in StageTexts, pii_types \in TypeLists :
          /\ calls < MaxTokenizeCalls
          /\ Tokenize(text, pii_types)
    \/ \E data \in StageData : Detokenize(data)
    \/ \E data \in StageData : MaskForDisplay(data)
    \/ \E response \in StageResponses, config \in StageConfigs :
          Validate(response, config)
    \/ \E input_text \in RouteTexts, config \in RouteConfigs :
          Route(input_text, config)

SpecStages == Init /\ [][NextStages]_vars

-----------------------------------------------------------------------------
(* Calls of process by several threads on one gateway.  The code takes no  *)
(* lock: a thread can be suspended between any two of its accesses to the  *)
(* fields of the gateway, and "self.x += v" is a load of the attribute, an *)
(* addition and a store.  Each action below is one thread's run up to its  *)
(* next access to a shared field.                                          *)

\* process l.40-43: step 1, _anonymize_pii stores its tokens in the vault
Thread_anonymize_pii(t, use_case, input_text) ==
    /\ threads[t].pc = "idle"
    /\ ~IsNone(get_template(use_case))
    /\ \E tk \in {_anonymize_pii(input_text,
                                Get(get_template(use_case), "pii_masking", <<>>),
                                pii_vault)} :
        /\ pii_vault' = tk.vault
        /\ calls' = calls + 1
        /\ first_stored' = FirstStored(first_stored, tk.trace)
        /\ replaced' = replaced \cup Replaced(tk.trace)
        /\ threads' = [threads EXCEPT ![t] =
                          [pc |-> "tokenized", use_case |-> use_case,
                           input_text |-> input_text,
                           tokenized_input |-> tk.text,
                           pii_count |-> tk.count]]
    /\ UNCHANGED <<audit_log, total_cost, request_count, api_key, last,
                   returned, cost_sum, appended>>

\* process l.45-58 and _calculate_cost l.210-211: steps 2 to 5 read the
\* vault as it is now, then the cost is computed
Thread_call_llm(t) ==
    /\ threads[t].pc = "tokenized"
    /\ LET my == threads[t]
           config == get_template(my.use_case)
           model == _route_model(my.input_text, config)
       IN  \E validated \in {_validate_schema(
                                _call_llm(model, my.tokenized_input, config,
                                          pii_vault, api_key, NoReply),
                                config)} :
              threads' = [threads EXCEPT ![t] =
                  IF validated.exc # ""
                  THEN [pc |-> "raised", exc |-> validated.exc]
                  ELSE [pc |-> "computed", use_case |-> my.use_case,
                        input_text |-> my.input_text,
                        tokenized_input |-> my.tokenized_input,
                        pii_count |-> my.pii_count,
                        model |-> model,
                        validated |-> validated.value,
                        output |-> _mask_for_display(validated.value, pii_vault),
                        backend_output |-> _detokenize(validated.value, pii_vault),
                        cost |-> computed_cost(model,
                                               WordCount(my.tokenized_input),
                                               ReprWords(validated.value))]]
    /\ UNCHANGED <<pii_vault, audit_log, total_cost, request_count, api_key,
                   last, calls, returned, cost_sum, appended, first_stored,
                   replaced>>

\* _calculate_cost l.212, self.total_cost += cost: the load of the attribute
Thread_load_total_cost(t) ==
    /\ threads[t].pc = "computed"
    /\ threads' = [threads EXCEPT ![t] =
                      [pc |-> "cost_loaded", loaded |-> total_cost] @@ @]
    /\ UNCHANGED <<pii_vault, audit_log, total_cost, request_count, api_key,
                   last, calls, returned, cost_sum, appended, first_stored,
                   replaced>>

\* _calculate_cost l.212, self.total_cost += cost: the store of the sum
Thread_store_total_cost(t) ==
    /\ threads[t].pc = "cost_loaded"
    /\ total_cost' = add_cost(threads[t].loaded, threads[t].cost)
    /\ cost_sum' = cost_sum + threads[t].cost
    /\ threads' = [threads EXCEPT ![t] = [pc |-> "costed"] @@ @]
    /\ UNCHANGED <<pii_vault, audit_log, request_count, api_key, last, calls,
                   returned, appended, first_stored, replaced>>

\* _log_audit l.218-232: the entry is built and appended to the deque
Thread_append_entry(t) ==
    /\ threads[t].pc = "costed"
    /\ LET my == threads[t]
       IN  \E entry \in {audit_entry(Len(appended) + 1, my.use_case,
                                     my.input_text, my.tokenized_input,
                                     my.validated, rounded_cost(my.cost),
                                     ThreadElapsed, my.model, my.pii_count)} :
              IF entry.exc # ""
              THEN /\ threads' = [threads EXCEPT ![t] =
                                     [pc |-> "raised", exc |-> entry.exc]]
                   /\ UNCHANGED <<audit_log, appended>>
              ELSE /\ audit_log' = deque_append(audit_log, entry.value)
                   /\ appended' = Append(appended, entry.value)
                   /\ threads' = [threads EXCEPT ![t] = [pc |-> "appended"] @@ @]
    /\ UNCHANGED <<pii_vault, total_cost, request_count, api_key, last, calls,
                   returned, cost_sum, first_stored, replaced>>

\* _log_audit l.233, self.request_count += 1: the load of the attribute
Thread_load_request_count(t) ==
    /\ threads[t].pc = "appended"
    /\ threads' = [threads EXCEPT ![t] =
                      [pc |-> "count_loaded", loaded |-> request_count] @@ @]
    /\ UNCHANGED <<pii_vault, audit_log, total_cost, request_count, api_key,
                   last, calls, returned, cost_sum, appended, first_stored,
                   replaced>>

\* _log_audit l.233, self.request_count += 1: the store of the sum
Thread_store_request_count(t) ==
    /\ threads[t].pc = "count_loaded"
    /\ request_count' = count_request(threads[t].loaded)
    /\ threads' = [threads EXCEPT ![t] = [pc |-> "counted"] @@ @]
    /\ UNCHANGED <<pii_vault, audit_log, total_cost, api_key, last, calls,
                   returned, cost_sum, appended, first_stored, replaced>>

\* process l.64-74: the result is built, with the keys of the vault as it
\* is now
Thread_return(t) ==
    /\ threads[t].pc = "counted"
    /\ LET my == threads[t]
       IN  last' = [op |-> "process", exc |-> "",
                    value |-> [original_input |-> my.input_text,
                               tokenized_input |-> my.tokenized_input,
                               model_used |-> my.model,
                               output |-> my.output,
                               backend_output |-> my.backend_output,
                               cost |-> rounded_cost(my.cost),
                               processing_time |-> ThreadElapsed,
                               pii_tokenized_count |-> my.pii_count,
                               pii_tokens |-> vault_keys(pii_vault)],
                    args |-> [use_case |-> my.use_case,
                              input_text |-> my.input_text, thread |-> t]]
    /\ returned' = returned + 1
    /\ threads' = [threads EXCEPT ![t] = [pc |-> "done"]]
    /\ UNCHANGED <<pii_vault, audit_log, total_cost, request_count, api_key,
                   calls, cost_sum, appended, first_stored, replaced>>

NextThreads ==
    \E t \in Threads :
        \/ \E use_case \in DOMAIN TEMPLATES, input_text \in SampleInputs :
              Thread_anonymize_pii(t, use_case, input_text)
        \/ Thread_call_llm(t)
        \/ Thread_load_total_cost(t)
        \/ Thread_store_total_cost(t)
        \/ Thread_append_entry(t)
        \/ Thread_load_request_count(t)
        \/ Thread_store_request_count(t)
        \/ Thread_return(t)

SpecThreads == Init /\ [][NextThreads]_vars

-----------------------------------------------------------------------------
(* The properties.                                                         *)

\* gateway.get_stats() in the current state
Stats == get_stats(audit_log, total_cost, request_count)

\* The last n elements of a sequence
LastN(s, n) == SubSeq(s, Len(s) - n + 1, Len(s))

\* C1: in every state reached by calls of process, the vault maps each token
\* to the value it was first stored with (a later tokenization that computes
\* a token already present never overwrites its value).
C1_VaultKeepsFirstValue ==
    \A t \in DOMAIN pii_vault : pii_vault[t] = first_stored[t]

\* C2: round trip: for every token a call of the tokenizer substituted into
\* a text, _detokenize of a mapping holding that token gives the original
\* substring the token replaced.
C2_RoundTrip ==
    \A p \in replaced :
        _detokenize(JDict([value |-> JStr(<<p[1]>>)]), pii_vault)
            = JDict([value |-> JStr(p[2])])

\* C3: the text the tokenizer returns holds no remaining match of the pattern
\* of any requested type that the registry knows.
C3_NoMatchRemains ==
    last.op = "_anonymize_pii" =>
        \A i \in 1..Len(last.value.pii_types) :
            last.value.pii_types[i] \in DOMAIN pii_patterns =>
                findall(pii_patterns[last.value.pii_types[i]],
                        last.value.tokenized_text) = <<>>

\* C4: process called with a use case that is not in the template registry
\* raises, appends no audit entry and changes neither the request count nor
\* the running total cost.
C4_UnknownUseCaseRaises ==
    [][(calls' = calls + 1 /\ last'.op = "process"
            /\ last'.args.use_case \notin DOMAIN TEMPLATES)
        => (last'.exc # ""
            /\ UNCHANGED <<audit_log, request_count, total_cost>>)]_vars

ResultKeys ==
    {"original_input", "tokenized_input", "model_used", "output",
     "backend_output", "cost", "processing_time", "pii_tokenized_count",
     "pii_tokens"}

\* C5: for a known use case with its registered configuration, process lets
\* no exception escape and returns a fully populated result, whatever the
\* external call does and returns.
C5_NoExceptionEscapes ==
    (last.op = "process" /\ last.args.use_case \in DOMAIN TEMPLATES) =>
        (last.exc = "" /\ DOMAIN last.value = ResultKeys)

\* C6: every call of process that returns appends exactly one audit entry
\* (its own), increments the request count by exactly one and adds its cost
\* to the running total exactly once; a call whose external call failed
\* returns, with the canned response.
C6_OneEntryPerReturn ==
    [][(calls' = calls + 1 /\ last'.op = "process") =>
        /\ last'.exc = "" =>
            /\ Len(audit_log') = Min(Len(audit_log) + 1, maxlen)
            /\ SubSeq(audit_log', 1, Len(audit_log') - 1)
                   = LastN(audit_log, Len(audit_log') - 1)
            /\ audit_log'[Len(audit_log')].timestamp = calls'
            /\ audit_log'[Len(audit_log')].cost = last'.value.cost
            /\ request_count' = request_count + 1
            /\ total_cost' - total_cost = cost_sum' - cost_sum
            /\ rounded_cost(total_cost' - total_cost) = last'.value.cost
        /\ (last'.args.invoked /\ ~last'.args.invoke.ok) =>
            /\ last'.exc = ""
            /\ audit_log'[Len(audit_log')].output_keys =
                  DOMAIN mock_responses(last'.args.config.template, pii_vault',
                                        last'.value.tokenized_input).json.v
       ]_vars

\* C6, its case: a call whose external call failed has returned, after an
\* earlier call that returned.
C6_Witness ==
    /\ last.op = "process" /\ last.exc = ""
    /\ last.args.invoked /\ ~last.args.invoke.ok
    /\ request_count = 2

\* C7: the audit log never holds more than 1000 entries, and it is exactly
\* the most recent min(n, 1000) of the n entries appended, in append order.
C7_LogIsMostRecent ==
    /\ Len(audit_log) <= maxlen
    /\ audit_log = LastN(appended, Min(Len(appended), maxlen))

\* C7, its case: an append to the full log has evicted.
C7_Witness == Len(appended) > maxlen /\ Len(audit_log) = maxlen

MaxLimit == 3

\* C8: for every limit k, k = 0 included, get_audit_log(k) returns at most
\* min(k, size) entries, the most recent ones in append order.
C8_RecentAtMost ==
    \A k \in 0..MaxLimit :
        LET n == Min(k, Len(audit_log))
        IN  /\ Len(get_audit_log(audit_log, k)) <= n
            /\ get_audit_log(audit_log, k) = LastN(audit_log, n)

\* C9: whenever the audit log is not empty, the requests and the total cost
\* of get_stats are the lifetime counters: the number of calls of process
\* completed since construction and the running total of their costs.
C9_LifetimeCounters ==
    audit_log # <<>> =>
        /\ Stats.requests = returned
        /\ Stats.total_cost = rounded_cost(cost_sum)

\* C10: whenever the audit log is not empty, each average of get_stats is the
\* mean of its field over the entries the log retains.
C10_AveragesOverRetained ==
    audit_log # <<>> =>
        /\ Stats.avg_cost_per_request =
              RoundDiv(SeqSum([i \in 1..Len(audit_log) |-> audit_log[i].cost]),
                       Len(audit_log), 10000)
        /\ Stats.avg_confidence =
              RoundDiv(SeqSum([i \in 1..Len(audit_log) |->
                                  audit_log[i].confidence]),
                       Len(audit_log), 1)
        /\ Stats.avg_processing_time =
              RoundDiv(SeqSum([i \in 1..Len(audit_log) |->
                                  audit_log[i].processing_time]),
                       Len(audit_log), 10)

\* C11: _detokenize and _mask_for_display are total on unknown tokens: a
\* string value that starts with PII_ and is no key of the vault is returned
\* unchanged in the output of both.
C11_UnknownTokenUnchanged ==
    (last.op \in {"_detokenize", "_mask_for_display"}
        /\ last.args.data.t = "dict") =>
        \A key \in DOMAIN last.args.data.v :
            (/\ last.args.data.v[key].t = "str"
             /\ startswith_PII(last.args.data.v[key].v)
             /\ Join(last.args.data.v[key].v) \notin DOMAIN pii_vault)
            => last.value.v[key] = last.args.data.v[key]

\* The mapping in which every string value that is a key of the vault, at
\* every nesting depth and under every key, is replaced by its stored
\* original (masked: by the masked rendering of it), and every other value
\* is kept.
RECURSIVE ReplacedAtEveryDepth(_, _, _)
ReplacedAtEveryDepth(data, vault, masked) ==
    IF data.t = "dict"
    THEN JDict([key \in DOMAIN data.v |->
            LET value == data.v[key]
            IN  IF value.t = "dict"
                THEN ReplacedAtEveryDepth(value, vault, masked)
                ELSE IF value.t = "str" /\ Join(value.v) \in DOMAIN vault
                     THEN JStr(IF masked
                               THEN mask_original(vault[Join(value.v)])
                               ELSE vault[Join(value.v)])
                     ELSE value])
    ELSE data

\* No string value of the mapping, at any depth, starts with PII_ without
\* being a key of the vault.
RECURSIVE NoUnknownToken(_, _)
NoUnknownToken(data, vault) ==
    data.t = "dict" =>
        \A key \in DOMAIN data.v :
            LET value == data.v[key]
            IN  /\ value.t = "dict" => NoUnknownToken(value, vault)
                /\ (value.t = "str" /\ startswith_PII(value.v))
                       => Join(value.v) \in DOMAIN vault

\* C12: _detokenize replaces every string value that is a key of the vault
\* by its stored original at every nesting depth of the mapping, whatever
\* the key a nested mapping sits under, and returns every other value
\* unchanged; _mask_for_display walks the same positions (stated for the
\* mappings whose tokens are all known).
C12_EveryDepth ==
    /\ last.op = "_detokenize" =>
          last.value = ReplacedAtEveryDepth(last.args.data, pii_vault, FALSE)
    /\ (last.op = "_mask_for_display"
            /\ NoUnknownToken(last.args.data, pii_vault)) =>
          last.value = ReplacedAtEveryDepth(last.args.data, pii_vault, TRUE)

\* The schema's required fields, as _validate_schema reads them
RequiredOf(config) ==
    Get(Get(config, "output_schema", [required |-> <<>>]), "required", <<>>)

\* C13: _validate_schema is total on text that is not a JSON object: for a
\* response that fails to parse or parses to something other than an object,
\* and every schema, it returns without raising, with validation_passed
\* false, missing_fields empty and data the error payload that carries the
\* raw response text.
C13_NonObjectIsInvalid ==
    (last.op = "_validate_schema"
        /\ (last.args.response.json = Invalid
            \/ last.args.response.json.t # "dict")) =>
        /\ last.exc = ""
        /\ last.value.v.validation_passed = JBool(FALSE)
        /\ last.value.v.missing_fields = JList(<<>>)
        /\ last.value.v.data =
              JDict([error |-> JStr(S_invalid_json),
                     raw_response |-> JStr(last.args.response.v)])

\* C14: for a response that parses to an object and every schema,
\* _validate_schema returns missing_fields equal to the required fields that
\* are not keys of the object, in schema order, validation_passed true
\* exactly if that list is empty, and data equal to the parsed object.
C14_MissingFields ==
    (last.op = "_validate_schema" /\ last.args.response.json.t = "dict") =>
        LET required == RequiredOf(last.args.config)
            absent == SelectSeq(required,
                        LAMBDA field :
                            Join(field) \notin DOMAIN last.args.response.json.v)
        IN  /\ last.exc = ""
            /\ last.value.v.missing_fields =
                  JList([i \in 1..Len(absent) |-> JStr(absent[i])])
            /\ last.value.v.validation_passed = JBool(absent = <<>>)
            /\ last.value.v.data = last.args.response.json

\* C14, its case: an object that lacks required fields and has one of them
\* has been validated.
C14_Witness ==
    /\ last.op = "_validate_schema" /\ last.exc = ""
    /\ last.args.response = R_missing
    /\ Len(last.value.v.missing_fields.v) = 2
    /\ last.value.v.validation_passed = JBool(FALSE)

\* What _route_model is to return when special is the set of characters
\* that count as a complex pattern.
RouteOf(input_text, config, ordinary) ==
    LET fallback == Get(config, "fallback_model", "")
        threshold == Get(config, "complexity_threshold", 100)
        words == Cardinality({i \in 1..Len(input_text) :
                                /\ ~IsSpace(input_text[i])
                                /\ (i = 1 \/ IsSpace(input_text[i - 1]))})
        complex == \E i \in 1..Len(input_text) : input_text[i] \notin ordinary
    IN  IF fallback # "" /\ (words > threshold \/ complex) THEN fallback
        ELSE Get(config, "model", "gpt-4o-mini")

Whitespace == {" ", "\n", "\t"}

\* C15, as stated: _route_model returns the fallback model exactly if one is
\* configured and the word count exceeds the threshold or the text holds a
\* character that is neither alphanumeric nor whitespace; else the model.
C15_RouteAlphanumeric ==
    last.op = "_route_model" =>
        last.value = RouteOf(last.args.input_text, last.args.config,
                             LetterChars \cup DigitChars \cup Whitespace)

\* C15, amended: the characters that do not count as complex are the word
\* characters (alphanumeric or underscore) and whitespace; the call leaves
\* the gateway as it is.
C15_RouteWordChars ==
    [][last'.op = "_route_model" =>
        /\ last'.value = RouteOf(last'.args.input_text, last'.args.config,
                                 LetterChars \cup DigitChars \cup {"_"}
                                     \cup Whitespace)
        /\ UNCHANGED <<pii_vault, audit_log, total_cost, request_count,
                       api_key>>]_vars

\* C15, its case: a text of one word with an underscore and no other special
\* character was routed with a fallback model configured, and went to the
\* configured model.
C15_Witness ==
    /\ last.op = "_route_model"
    /\ last.args.input_text = W_underscore
    /\ Get(last.args.config, "fallback_model", "") = "o1-mini"
    /\ last.value = "gpt-4o"

\* The values of the vocabulary that a pattern matches, with their types.
PiiWords ==
    {<<"phone", W_phone>>, <<"phone", W_phone2>>, <<"email", W_email>>,
     <<"iban", W_iban>>}

\* The number of times the word w stands in text between whitespace.
Occurrences(text, w) ==
    Cardinality({i \in 1..(Len(text) - Len(w) + 1) :
                    /\ SubSeq(text, i, i + Len(w) - 1) = w
                    /\ (i = 1 \/ text[i - 1] = " ")
                    /\ (i + Len(w) - 1 = Len(text) \/ text[i + Len(w)] = " ")})

\* C16: dedup by value.  When one _anonymize_pii call meets k occurrences of
\* the identical value of one requested type, the count grows by k and the
\* vault gains exactly one entry for that value: after the call one entry
\* holds the value, and the vault has grown by one entry for each value it
\* had not tokenized before; for a value tokenized in an earlier call the
\* count grows and the size of the vault does not.
C16_DedupByValue ==
    [][(last'.op = "_anonymize_pii" /\ calls' = calls + 1) =>
        LET text == last'.value.text
            met == {p \in PiiWords :
                        /\ \E i \in 1..Len(last'.value.pii_types) :
                              last'.value.pii_types[i] = p[1]
                        /\ Occurrences(text, p[2]) > 0}
            fresh == {p \in met : \A r \in replaced : r[2] # p[2]}
        IN  /\ last'.value.token_count =
                  FcnSum([p \in met |-> Occurrences(text, p[2])])
            /\ \A p \in met :
                  Cardinality({t \in DOMAIN pii_vault' :
                                  pii_vault'[t] = p[2]}) = 1
            /\ Cardinality(DOMAIN pii_vault') =
                  Cardinality(DOMAIN pii_vault) + Cardinality(fresh)]_vars

\* C18: the pii_tokens of the result of process is the key set of the whole
\* vault at the moment process returns: it holds every token stored by this
\* call and by every earlier call on the gateway, and every key the vault had
\* before the call, so over successive calls it never loses a token.
C18_TokensOfWholeVault ==
    [][(last'.op = "process" /\ last'.exc = "") =>
        /\ last'.value.pii_tokens = DOMAIN pii_vault'
        /\ DOMAIN first_stored' \subseteq last'.value.pii_tokens
        /\ {r[1] : r \in replaced'} \subseteq last'.value.pii_tokens
        /\ DOMAIN pii_vault \subseteq last'.value.pii_tokens
        /\ (last.op = "process" /\ last.exc = "") =>
              last.value.pii_tokens \subseteq last'.value.pii_tokens]_vars

\* C18, its case: process has returned a pii_tokens that lists a token of an
\* earlier call, one that does not occur in this call's tokenized input.
C18_Witness ==
    /\ last.op = "process" /\ last.exc = ""
    /\ last.value.pii_tokenized_count > 0
    /\ \E t \in last.value.pii_tokens :
          \A i \in 1..Len(last.value.tokenized_input) :
              last.value.tokenized_input[i] # t

\* C17: once all concurrent invocations of process have returned, the
\* request count equals the number of invocations, the running total equals
\* the sum of their costs and the log holds one entry per invocation (up to
\* its capacity): no update is lost.
C17_NoLostUpdate ==
    (\A t \in Threads : threads[t].pc = "done") =>
        /\ returned = NumThreads
        /\ request_count = NumThreads
        /\ total_cost = cost_sum
        /\ Len(appended) = NumThreads
        /\ audit_log = LastN(appended, Min(Len(appended), maxlen))

=============================================================================
